---------------------------- MODULE Spec2Model ----------------------------
(***************************************************************************)
(* rustc-perf: the site's graph request handler with its landing-page      *)
(* cache (site/src/request_handlers/graph.rs) and the collector's runtime  *)
(* benchmark discovery (collector/src/runtime/benchmark.rs).               *)
(*                                                                         *)
(* Spec           concurrent handle_graph requests over the shared         *)
(*                landing_page slot and an external store that grows.      *)
(* DiscoverySpec  one run of discover_benchmarks over a benchmark          *)
(*                directory, its build processes and their event streams.  *)
(* SuiteSpec      the counting methods of BenchmarkSuite applied to        *)
(*                suites and filters drawn from bounded sets.              *)
(* ImplSpec       one run of handle_graph_impl over a store drawn from a   *)
(*                bounded set.                                             *)
(* PointsSpec     to_graph_points applied to series drawn from a bounded   *)
(*                set.                                                     *)
(* SeriesSpec     the loop of handle_graph that builds one graph::Series.  *)
(* TagSpec        the requests of Spec over a store that records a tagged  *)
(*                artifact.                                                *)
(***************************************************************************)
EXTENDS Naturals, Integers, Sequences, FiniteSets, TLC

(***************************************************************************)
(* Bounds of the model.                                                    *)
(***************************************************************************)
NumRequests == 2
MaxStore == 1
MaxEntries == 3
MaxEvents == 2
MaxGroups == 3
MaxPoints == 3
MaxOver == 1
MaxRange == 3
MaxScenarios == 2
MaxBenchmarks == 2

VARIABLES
    \* ---- site: handle_graph ----
    landing_page,   \* ctxt.landing_page: <<>> is None, <<resp>> is Some(resp)
    store,          \* the external store: number of commits it holds
    tagged,         \* the external store: it holds a tagged artifact as well
    pc,             \* per request: position inside handle_graph
    body,           \* per request: the graph::Request
    commits,        \* per request: local `commits` (line 34)
    resp,           \* per request: local `resp` (line 68)
    result,         \* per request: what handle_graph returned
    \* ---- history of the run (observers, not program state) ----
    loaded,         \* per request: it read the landing_page slot
    computed,       \* per request: it went through the data-range lookup
    concurrent,     \* per canonical request: canonical requests in flight at its issue
    afterSuccess,   \* per canonical request: issued after a canonical one returned Ok
    built,          \* responses built by canonical requests (lines 68-77)
    storeLog,       \* stores into the slot, in order
    \* ---- collector: discover_benchmarks ----
    entries,        \* the benchmark directory: entry name -> kind of entry
    dpc,            \* position inside discover_benchmarks
    crates,         \* local `benchmark_crates` (line 88)
    idx,            \* position of the for loop of line 94 (1-based)
    nread,          \* events read from the current build's stream
    groups,         \* local `groups` (line 93)
    running,        \* build processes spawned and not yet waited for
    dresult,        \* what discover_benchmarks returned
    \* ---- history of the run (observers, not program state) ----
    launchLog,      \* crates whose build was launched, in order
    exits,          \* crate -> exit status its build process ended with
    failure,        \* the first error raised, <<>> if none
    lastEvent,      \* the event the last step read from the stream, if it read one
    \* ---- collector: BenchmarkSuite ----
    suite,          \* a BenchmarkSuite
    filter,         \* the BenchmarkFilter of the last filtered count
    total,          \* result of total_benchmark_count, -1 before the call
    filtered,       \* result of filtered_benchmark_count, -1 before the call
    \* ---- site: handle_graph_impl ----
    ctxt,           \* what the store and the configuration hold for the request
    body_impl,      \* the graph::Request: its stat and its kind
    ipc,            \* position inside handle_graph_impl
    all_series,     \* local `series` (line 111)
    baselines,      \* local `baselines` (line 119): baseline query -> value
    qi,             \* position of the for loop of line 136 (1-based)
    against,        \* local `against` (line 162)
    impl_result,    \* what handle_graph_impl returned
    \* ---- history of the run (observers, not program state) ----
    baseline_log,   \* the baseline queries sent to the store, in order
    summary_log,    \* the summary series computed, before to_graph_points
    \* ---- site: to_graph_points ----
    in_kind,        \* argument `kind`
    in_points,      \* argument `points`, collected
    graph_points,   \* the points it yields, collected
    \* ---- site: handle_graph, lines 46-60 ----
    series_points,  \* `points` of line 46
    series          \* the graph::Series of line 47 when the loop has ended

gvars == <<landing_page, store, tagged, pc, body, commits, resp, result,
           loaded, computed, concurrent, afterSuccess, built, storeLog>>

dvars == <<entries, dpc, crates, idx, nread, groups, running, dresult,
           launchLog, exits, failure, lastEvent>>

svars == <<suite, filter, total, filtered>>

avars == <<ctxt, body_impl, ipc, all_series, baselines, qi, against, impl_result,
           baseline_log, summary_log>>

pvars == <<in_kind, in_points, graph_points>>

bvars == <<series_points, series>>

vars == <<gvars, dvars, svars, avars, pvars, bvars>>

Requests == 1..NumRequests

(***************************************************************************)
(* graph::Request and its fields.                                          *)
(***************************************************************************)
BoundValues == {"None", "Commit"}
Stats == {"instructions:u", "cycles:u"}
GraphKinds == {"Raw", "PercentRelative", "PercentFromFirst"}

DefaultQuery ==
    [start |-> "None", end |-> "None", stat |-> "instructions:u", kind |-> "Raw"]

\* The request bodies clients send: the canonical one and every body that
\* differs from it in exactly one field (the nearest misses of line 18).
GraphRequest ==
    {b \in [start : BoundValues, end : BoundValues, stat : Stats, kind : GraphKinds] :
        Cardinality({f \in {"start", "end", "stat", "kind"} : b[f] # DefaultQuery[f]}) <= 1}

\* A careless comparison that forgets the graph kind.
IsDefaultQueryIgnoringKind(b) ==
    /\ b.start = DefaultQuery.start
    /\ b.end = DefaultQuery.end
    /\ b.stat = DefaultQuery.stat

\* lines 18-24: structural equality with the canonical request
IsDefaultQuery(b) == b = DefaultQuery

NoBody == [start |-> "None", end |-> "None", stat |-> "", kind |-> ""]
NoResult == [kind |-> "none"]
NoResp == <<>>

(***************************************************************************)
(* The store collaborator.  The store holds commits 1..n and, after them,  *)
(* at most one tagged artifact; a Commit bound names the first commit of   *)
(* the history.                                                            *)
(***************************************************************************)
\* ArtifactId::Commit and ArtifactId::Tag (lines 72-73)
Commit(i) == [kind |-> "Commit", date |-> i, sha |-> i]
Tag == [kind |-> "Tag", date |-> 0, sha |-> 0]

\* ctxt.data_range(start..=end), each element turned into an ArtifactId
DataRange(n, b) ==
    LET hi == IF b.end = "Commit" /\ n >= 1 THEN 1 ELSE n
    IN  [i \in 1..hi |-> Commit(i)]
            \o (IF tagged /\ b.end = "None" THEN <<Tag>> ELSE <<>>)

\* What handle_graph_impl returns for the store contents it read.
GraphData(n, b) == [range |-> DataRange(n, b), stat |-> b.stat, kind |-> b.kind]

HasTag(cs) == \E i \in DOMAIN cs : cs[i].kind = "Tag"

\* A variant that leaves tagged artifacts out of the list.
CommitListSkippingTags(cs) ==
    LET kept == SelectSeq(cs, LAMBDA c : c.kind = "Commit")
    IN  <<[i \in DOMAIN kept |-> <<kept[i].date, kept[i].sha>>]>>

\* lines 69-75: (timestamp, sha) of every commit; a Tag is unreachable!(),
\* a panic: <<>> stands for it, <<list>> for the list
CommitList(cs) ==
    IF HasTag(cs) THEN <<>> ELSE <<[i \in DOMAIN cs |-> <<cs[i].date, cs[i].sha>>]>>

\* lines 68-77: the response is the commit list plus the per-benchmark series
NewResponse(cs, bs) == [commits |-> cs, benchmarks |-> bs]

\* The canonical requests that have not returned yet.
CanonicalInFlight ==
    {r \in Requests : pc[r] \notin {"idle", "done"} /\ body[r] = DefaultQuery}

\* Some canonical request has returned Ok.
Succeeded ==
    \E r \in Requests :
        pc[r] = "done" /\ body[r] = DefaultQuery /\ result[r].kind = "ok"

(***************************************************************************)
(* Init: the process has just started; the slot is empty.                  *)
(***************************************************************************)
GraphInit ==
    /\ landing_page = <<>>
    /\ store = 0
    /\ tagged = FALSE
    /\ pc = [r \in Requests |-> "idle"]
    /\ body = [r \in Requests |-> NoBody]
    /\ commits = [r \in Requests |-> <<>>]
    /\ resp = [r \in Requests |-> NoResp]
    /\ result = [r \in Requests |-> NoResult]
    /\ loaded = [r \in Requests |-> FALSE]
    /\ computed = [r \in Requests |-> FALSE]
    /\ concurrent = [r \in Requests |-> {}]
    /\ afterSuccess = [r \in Requests |-> FALSE]
    /\ built = {}
    /\ storeLog = <<>>

(***************************************************************************)
(* handle_graph, one action per access to what requests share: the slot    *)
(* (its load and its store are each atomic) and the store.  Requests are   *)
(* numbered in the order they are issued.                                  *)
(***************************************************************************)
\* A client issues request r with body b (lines 12-24).
Issue(r, b) ==
    /\ pc[r] = "idle"
    /\ \A q \in Requests : q < r => pc[q] # "idle"
    /\ body' = [body EXCEPT ![r] = b]
    /\ pc' = [pc EXCEPT ![r] = "load"]
    /\ concurrent' = [concurrent EXCEPT ![r] = IF b = DefaultQuery THEN CanonicalInFlight ELSE {}]
    /\ afterSuccess' = [afterSuccess EXCEPT ![r] = (b = DefaultQuery /\ Succeeded)]
    /\ UNCHANGED <<landing_page, store, tagged, commits, resp, result, loaded, computed,
                   built, storeLog>>
    /\ UNCHANGED <<dvars, svars, avars, pvars, bvars>>

\* A variant that never looks at the slot.
LoadAlwaysMiss(r) ==
    /\ pc[r] = "load"
    /\ pc' = [pc EXCEPT ![r] = "range"]
    /\ UNCHANGED <<landing_page, store, tagged, body, commits, resp, result, loaded,
                   computed, concurrent, afterSuccess, built, storeLog>>
    /\ UNCHANGED <<dvars, svars, avars, pvars, bvars>>

\* A variant that takes the response out of the slot when it returns it.
LoadAndTake(r) ==
    /\ pc[r] = "load"
    /\ IF IsDefaultQuery(body[r])
       THEN /\ loaded' = [loaded EXCEPT ![r] = TRUE]
            /\ IF landing_page # <<>>
               THEN /\ result' = [result EXCEPT
                                    ![r] = [kind |-> "ok", resp |-> landing_page[1]]]
                    /\ pc' = [pc EXCEPT ![r] = "done"]
                    /\ landing_page' = <<>>
               ELSE /\ pc' = [pc EXCEPT ![r] = "range"]
                    /\ UNCHANGED <<result, landing_page>>
       ELSE /\ pc' = [pc EXCEPT ![r] = "range"]
            /\ UNCHANGED <<loaded, result, landing_page>>
    /\ UNCHANGED <<store, tagged, body, commits, resp, computed, concurrent,
                   afterSuccess, built, storeLog>>
    /\ UNCHANGED <<dvars, svars, avars, pvars, bvars>>

\* lines 26-31: the canonical request returns what the slot holds, if anything
LoadLandingPage(r) ==
    /\ pc[r] = "load"
    /\ IF IsDefaultQuery(body[r])
       THEN /\ loaded' = [loaded EXCEPT ![r] = TRUE]
            /\ IF landing_page # <<>>
               THEN /\ result' = [result EXCEPT
                                    ![r] = [kind |-> "ok", resp |-> landing_page[1]]]
                    /\ pc' = [pc EXCEPT ![r] = "done"]
               ELSE /\ pc' = [pc EXCEPT ![r] = "range"]
                    /\ UNCHANGED result
       ELSE /\ pc' = [pc EXCEPT ![r] = "range"]
            /\ UNCHANGED <<loaded, result>>
    /\ UNCHANGED <<landing_page, store, tagged, body, commits, resp, computed, concurrent,
                   afterSuccess, built, storeLog>>
    /\ UNCHANGED <<dvars, svars, avars, pvars, bvars>>

\* lines 33-34: the data-range lookup
LookupRange(r) ==
    /\ pc[r] = "range"
    /\ commits' = [commits EXCEPT ![r] = DataRange(store, body[r])]
    /\ computed' = [computed EXCEPT ![r] = TRUE]
    /\ pc' = [pc EXCEPT ![r] = "impl"]
    /\ UNCHANGED <<landing_page, store, tagged, body, resp, result, loaded, concurrent,
                   afterSuccess, built, storeLog>>
    /\ UNCHANGED <<dvars, svars, avars, pvars, bvars>>

\* A variant that stores what it has so far before it awaits the series.
HandleGraphImplStoringFirst(r) ==
    /\ pc[r] = "impl"
    /\ \E ok \in BOOLEAN :
         IF ok
         THEN LET list == CommitList(commits[r])
                  new == NewResponse(list[1], GraphData(store, body[r]))
              IN  /\ list # <<>>
                  /\ resp' = [resp EXCEPT ![r] = new]
                  /\ built' = IF body[r] = DefaultQuery THEN built \cup {new} ELSE built
                  /\ pc' = [pc EXCEPT ![r] = "store"]
                  /\ UNCHANGED <<result, landing_page>>
         ELSE /\ result' = [result EXCEPT ![r] = [kind |-> "err"]]
              /\ pc' = [pc EXCEPT ![r] = "done"]
              /\ landing_page' = IF IsDefaultQuery(body[r])
                                 THEN <<NewResponse(<<>>, <<>>)>>
                                 ELSE landing_page
              /\ UNCHANGED <<resp, built>>
    /\ UNCHANGED <<store, tagged, body, commits, loaded, computed,
                   concurrent, afterSuccess, storeLog>>
    /\ UNCHANGED <<dvars, svars, avars, pvars, bvars>>

\* lines 38-77: handle_graph_impl(body, ctxt).await? reads the store, which may
\* fail; the response is then assembled from the request's own locals, and
\* the request panics on a Tag among its commits
HandleGraphImpl(r) ==
    /\ pc[r] = "impl"
    /\ \E ok \in BOOLEAN :
         IF ok
         THEN LET list == CommitList(commits[r])
              IN  IF list = <<>>
                  THEN /\ result' = [result EXCEPT ![r] = [kind |-> "panic"]]
                       /\ pc' = [pc EXCEPT ![r] = "done"]
                       /\ UNCHANGED <<resp, built>>
                  ELSE LET new == NewResponse(list[1], GraphData(store, body[r]))
                       IN  /\ resp' = [resp EXCEPT ![r] = new]
                           /\ built' = IF body[r] = DefaultQuery
                                       THEN built \cup {new} ELSE built
                           /\ pc' = [pc EXCEPT ![r] = "store"]
                           /\ UNCHANGED result
         ELSE /\ result' = [result EXCEPT ![r] = [kind |-> "err"]]
              /\ pc' = [pc EXCEPT ![r] = "done"]
              /\ UNCHANGED <<resp, built>>
    /\ UNCHANGED <<landing_page, store, tagged, body, commits, loaded, computed,
                   concurrent, afterSuccess, storeLog>>
    /\ UNCHANGED <<dvars, svars, avars, pvars, bvars>>

\* A compare-and-set variant: the first writer wins.
StoreIfEmpty(r) ==
    /\ pc[r] = "store"
    /\ IF IsDefaultQuery(body[r])
       THEN /\ landing_page' = IF landing_page = <<>> THEN <<resp[r]>> ELSE landing_page
            /\ storeLog' = Append(storeLog, [resp |-> resp[r], recomputed |-> computed[r]])
       ELSE UNCHANGED <<landing_page, storeLog>>
    /\ result' = [result EXCEPT ![r] = [kind |-> "ok", resp |-> resp[r]]]
    /\ pc' = [pc EXCEPT ![r] = "done"]
    /\ UNCHANGED <<store, tagged, body, commits, resp, loaded, computed, concurrent,
                   afterSuccess, built>>
    /\ UNCHANGED <<dvars, svars, avars, pvars, bvars>>

\* A variant that stores the response while its `benchmarks` map (line 36)
\* is still empty.
StoreBeforeBenchmarks(r) ==
    /\ pc[r] = "store"
    /\ IF IsDefaultQuery(body[r])
       THEN /\ landing_page' = <<NewResponse(resp[r].commits, <<>>)>>
            /\ storeLog' = Append(storeLog, [resp |-> resp[r], recomputed |-> computed[r]])
       ELSE UNCHANGED <<landing_page, storeLog>>
    /\ result' = [result EXCEPT ![r] = [kind |-> "ok", resp |-> resp[r]]]
    /\ pc' = [pc EXCEPT ![r] = "done"]
    /\ UNCHANGED <<store, tagged, body, commits, resp, loaded, computed, concurrent,
                   afterSuccess, built>>
    /\ UNCHANGED <<dvars, svars, avars, pvars, bvars>>

\* lines 79-83: the canonical request replaces the slot with its whole
\* response; every request that got here returns Ok(resp)
StoreLandingPage(r) ==
    /\ pc[r] = "store"
    /\ IF IsDefaultQuery(body[r])
       THEN /\ landing_page' = <<resp[r]>>
            /\ storeLog' = Append(storeLog, [resp |-> resp[r], recomputed |-> computed[r]])
       ELSE UNCHANGED <<landing_page, storeLog>>
    /\ result' = [result EXCEPT ![r] = [kind |-> "ok", resp |-> resp[r]]]
    /\ pc' = [pc EXCEPT ![r] = "done"]
    /\ UNCHANGED <<store, tagged, body, commits, resp, loaded, computed, concurrent,
                   afterSuccess, built>>
    /\ UNCHANGED <<dvars, svars, avars, pvars, bvars>>

\* The collector records the measurements of one more commit.
StoreAdvance ==
    /\ store < MaxStore
    /\ store' = store + 1
    /\ UNCHANGED <<landing_page, tagged, pc, body, commits, resp, result, loaded, computed,
                   concurrent, afterSuccess, built, storeLog>>
    /\ UNCHANGED <<dvars, svars, avars, pvars, bvars>>

\* A release is recorded: the store holds a tagged artifact from now on.
StoreTag ==
    /\ ~tagged
    /\ tagged' = TRUE
    /\ UNCHANGED <<landing_page, store, pc, body, commits, resp, result, loaded,
                   computed, concurrent, afterSuccess, built, storeLog>>
    /\ UNCHANGED <<dvars, svars, avars, pvars, bvars>>

GraphNext ==
    \/ \E r \in Requests, b \in GraphRequest : Issue(r, b)
    \/ \E r \in Requests : LoadLandingPage(r)
    \/ \E r \in Requests : LookupRange(r)
    \/ \E r \in Requests : HandleGraphImpl(r)
    \/ \E r \in Requests : StoreLandingPage(r)
    \/ StoreAdvance

\* The same requests over a store whose only change is the recording of a
\* release.
TaggedNext ==
    \/ \E r \in Requests, b \in GraphRequest : Issue(r, b)
    \/ \E r \in Requests : LoadLandingPage(r)
    \/ \E r \in Requests : LookupRange(r)
    \/ \E r \in Requests : HandleGraphImpl(r)
    \/ \E r \in Requests : StoreLandingPage(r)
    \/ StoreTag

(***************************************************************************)
(* collector/src/runtime/benchmark.rs                                      *)
(*                                                                         *)
(* Entry names stand for file names; their order is the order of the       *)
(* names as strings.  A binary path is its sequence of components, as      *)
(* PathBuf compares paths: <<target directory, binary name>>.              *)
(***************************************************************************)
EntryNames == 1..MaxEntries
EntryKinds == {"crate", "dir", "file"}   \* dir with Cargo.toml, dir without, no dir

BinaryPaths == {<<1, 1>>, <<1, 2>>, <<2, 1>>}

\* Benchmark names are strings, here sequences of characters.
NameA == <<"a">>
NameAB == <<"a", "b">>
NameB == <<"b">>

\* gather_benchmarks: what `<binary> list` prints, decoded (lines 207-210)
ListOutput(path) ==
    CASE path = <<1, 1>> -> <<NameB, NameA, NameAB, NameB, NameA>>
      [] path = <<1, 2>> -> <<NameB, NameA>>
      [] OTHER -> <<NameAB, NameA, NameB>>

\* ExitStatus of a build process: an exit code, or death by a signal
ExitStatuses == {[code |-> 0], [code |-> 101], [signal |-> 9]}
Success(st) == "code" \in DOMAIN st /\ st.code = 0                \* output.success()
CodeOr1(st) == IF "code" \in DOMAIN st THEN st.code ELSE 1        \* output.code().unwrap_or(1)

\* cargo_metadata::Message, as the match of lines 136-162 tells them apart
OtherEvents == {"artifact_no_executable", "artifact_not_bin", "text_line",
                "compiler_message", "other"}

RECURSIVE PathLess(_, _)
\* PathBuf::cmp: component by component
PathLess(p, q) ==
    IF q = <<>> THEN FALSE
    ELSE IF p = <<>> THEN TRUE
    ELSE IF Head(p) # Head(q) THEN Head(p) < Head(q)
    ELSE PathLess(Tail(p), Tail(q))

PathLeq(p, q) == p = q \/ PathLess(p, q)

IndexOrders(n) ==
    {f \in [1..n -> 1..n] : \A i, j \in 1..n : f[i] = f[j] => i = j}

RECURSIVE InsertByName(_, _)
InsertByName(c, s) ==
    IF s = <<>> THEN <<c>>
    ELSE IF c.name < Head(s).name THEN <<c>> \o s
    ELSE <<Head(s)>> \o InsertByName(c, Tail(s))

RECURSIVE SortedByName(_)
SortedByName(s) ==
    IF s = <<>> THEN <<>> ELSE InsertByName(Head(s), SortedByName(Tail(s)))

\* The sort of line 231 left out.
CratesAsEnumerated(s) == s

\* line 231: groups.sort_unstable_by(|a, b| a.name.cmp(&b.name))
SortCratesByName(s) == SortedByName(s)

\* lines 214-230: the crates among the directory entries, as read_dir yields them
CratesOf(order) ==
    LET RECURSIVE Scan(_)
        Scan(i) ==
            IF i > Len(order) THEN <<>>
            ELSE IF entries[order[i]] = "crate"
                 THEN <<[name |-> order[i]]>> \o Scan(i + 1)
                 ELSE Scan(i + 1)
    IN  Scan(1)

\* The sort of line 121 left out.
GroupsAsPushed(gs) == {gs}

\* line 121: groups.sort_unstable_by(|a, b| a.binary.cmp(&b.binary)); the order
\* of groups with equal paths is whatever the unstable sort leaves
SortGroupsByBinary(gs) ==
    {s \in {[i \in 1..Len(gs) |-> gs[f[i]]] : f \in IndexOrders(Len(gs))} :
        \A i \in 1..(Len(s) - 1) : PathLeq(s[i].binary, s[i + 1].binary)}

NoFailure == <<>>
NoEvent == [kind |-> "none", path |-> <<>>]
NoDResult == [kind |-> "none"]
NotExited == [code |-> -1]

CurrentCrate == crates[idx].name

DiscoveryInit ==
    /\ entries \in [EntryNames -> EntryKinds]
    /\ dpc = "read_dir"
    /\ crates = <<>>
    /\ idx = 1
    /\ nread = 0
    /\ groups = <<>>
    /\ running = {}
    /\ dresult = NoDResult
    /\ launchLog = <<>>
    /\ exits = [n \in EntryNames |-> NotExited]
    /\ failure = NoFailure
    /\ lastEvent = NoEvent

\* The for loop of line 94 takes the next crate, or ends.
LoopFrom(i) == IF i <= Len(crates) THEN "launch" ELSE "sort"

\* A variant that reports the error and goes on with the next crate.
SkipCrate(e) ==
    /\ idx' = idx + 1
    /\ dpc' = LoopFrom(idx + 1)
    /\ UNCHANGED dresult

\* The `?` of lines 114, 117, 135, 148 and the Err of 166: the error is what
\* discover_benchmarks returns
ReturnErr(e) ==
    /\ dresult' = [kind |-> "err", error |-> e]
    /\ dpc' = "done"
    /\ UNCHANGED idx

Noted(e) == IF failure = NoFailure THEN <<e>> ELSE failure

\* line 88, lines 213-233: get_runtime_benchmark_groups(benchmark_dir)?
GetRuntimeBenchmarkGroups ==
    /\ dpc = "read_dir"
    /\ \E readable \in BOOLEAN :
         IF readable
         THEN \E f \in IndexOrders(MaxEntries) :
                LET found == SortCratesByName(CratesOf(f))
                IN  /\ crates' = found
                    /\ dpc' = IF 1 <= Len(found) THEN "launch" ELSE "sort"
                    /\ UNCHANGED <<dresult, failure>>
         ELSE /\ dresult' = [kind |-> "err", error |-> [step |-> "read_dir"]]
              /\ failure' = <<[step |-> "read_dir"]>>
              /\ dpc' = "done"
              /\ UNCHANGED crates
    /\ UNCHANGED <<entries, idx, nread, groups, running, launchLog, exits, lastEvent>>
    /\ UNCHANGED <<gvars, svars, avars, pvars, bvars>>

\* lines 107-114: start_cargo_build(...)?
StartCargoBuild ==
    /\ dpc = "launch"
    /\ \E spawned \in BOOLEAN :
         IF spawned
         THEN /\ running' = running \cup {CurrentCrate}
              /\ launchLog' = Append(launchLog, CurrentCrate)
              /\ nread' = 0
              /\ dpc' = "events"
              /\ UNCHANGED <<idx, dresult, failure>>
         ELSE LET e == [step |-> "launch", crate |-> CurrentCrate]
              IN  /\ ReturnErr(e)
                  /\ failure' = Noted(e)
                  /\ UNCHANGED <<running, launchLog, nread>>
    /\ lastEvent' = NoEvent
    /\ UNCHANGED <<entries, crates, groups, exits>>
    /\ UNCHANGED <<gvars, svars, avars, pvars, bvars>>

\* lines 134-156: an artifact with an executable of kind "bin" is run with
\* `list` at once and its group is pushed
ReadBinArtifact(path) ==
    /\ dpc = "events"
    /\ nread < MaxEvents
    /\ Len(groups) < MaxGroups
    /\ nread' = nread + 1
    /\ lastEvent' = [kind |-> "artifact_bin", path |-> path]
    /\ \E listed \in BOOLEAN :
         IF listed
         THEN /\ groups' = Append(groups, [binary |-> path,
                                            benchmark_names |-> ListOutput(path)])
              /\ UNCHANGED <<dpc, idx, dresult, failure>>
         ELSE LET e == [step |-> "list", crate |-> CurrentCrate, binary |-> path]
              IN  /\ ReturnErr(e)
                  /\ failure' = Noted(e)
                  /\ UNCHANGED groups
    /\ UNCHANGED <<entries, crates, running, launchLog, exits>>
    /\ UNCHANGED <<gvars, svars, avars, pvars, bvars>>

\* A variant without the test of line 141: any artifact is taken for a binary.
ReadOtherEventAnyKind(ev) ==
    /\ dpc = "events"
    /\ nread < MaxEvents
    /\ nread' = nread + 1
    /\ lastEvent' = [kind |-> ev, path |-> <<>>]
    /\ groups' = IF ev = "artifact_not_bin" /\ Len(groups) < MaxGroups
                 THEN Append(groups, [binary |-> <<1, 1>>,
                                      benchmark_names |-> ListOutput(<<1, 1>>)])
                 ELSE groups
    /\ UNCHANGED <<entries, dpc, crates, idx, running, dresult,
                   launchLog, exits, failure>>
    /\ UNCHANGED <<gvars, svars, avars, pvars, bvars>>

\* lines 137-162: every other message is printed or ignored
ReadOtherEvent(ev) ==
    /\ dpc = "events"
    /\ nread < MaxEvents
    /\ nread' = nread + 1
    /\ lastEvent' = [kind |-> ev, path |-> <<>>]
    /\ UNCHANGED <<entries, dpc, crates, idx, groups, running, dresult,
                   launchLog, exits, failure>>
    /\ UNCHANGED <<gvars, svars, avars, pvars, bvars>>

\* A variant that waits for the child before it returns the error.
ReadBrokenEventReaped ==
    /\ dpc = "events"
    /\ nread < MaxEvents
    /\ nread' = nread + 1
    /\ lastEvent' = [kind |-> "unreadable", path |-> <<>>]
    /\ running' = running \ {CurrentCrate}
    /\ exits' = [exits EXCEPT ![CurrentCrate] = [signal |-> 9]]
    /\ LET e == [step |-> "stream", crate |-> CurrentCrate]
       IN  /\ ReturnErr(e)
           /\ failure' = Noted(e)
    /\ UNCHANGED <<entries, crates, groups, launchLog>>
    /\ UNCHANGED <<gvars, svars, avars, pvars, bvars>>

\* line 135: `let message = message?` on a line that cannot be read
ReadBrokenEvent ==
    /\ dpc = "events"
    /\ nread < MaxEvents
    /\ nread' = nread + 1
    /\ lastEvent' = [kind |-> "unreadable", path |-> <<>>]
    /\ LET e == [step |-> "stream", crate |-> CurrentCrate]
       IN  /\ ReturnErr(e)
           /\ failure' = Noted(e)
    /\ UNCHANGED <<entries, crates, groups, running, launchLog, exits>>
    /\ UNCHANGED <<gvars, svars, avars, pvars, bvars>>

\* line 134: the stream has ended, the for loop is left
EndOfStream ==
    /\ dpc = "events"
    /\ dpc' = "wait"
    /\ lastEvent' = NoEvent
    /\ UNCHANGED <<entries, crates, idx, nread, groups, running, dresult,
                   launchLog, exits, failure>>
    /\ UNCHANGED <<gvars, svars, avars, pvars, bvars>>

\* A variant that leaves the child behind and takes the next crate.
NoWait ==
    /\ dpc = "wait"
    /\ idx' = idx + 1
    /\ dpc' = LoopFrom(idx + 1)
    /\ UNCHANGED <<entries, crates, nread, groups, running, dresult,
                   launchLog, exits, failure, lastEvent>>
    /\ UNCHANGED <<gvars, svars, avars, pvars, bvars>>

\* A variant that waits and does not look at the status.
WaitIgnoringStatus ==
    /\ dpc = "wait"
    /\ \E st \in ExitStatuses :
         /\ running' = running \ {CurrentCrate}
         /\ exits' = [exits EXCEPT ![CurrentCrate] = st]
    /\ idx' = idx + 1
    /\ dpc' = LoopFrom(idx + 1)
    /\ UNCHANGED <<entries, crates, nread, groups, dresult, launchLog, failure,
                   lastEvent>>
    /\ UNCHANGED <<gvars, svars, avars, pvars, bvars>>

\* lines 164-172 and 115-118: cargo_process.wait()?, then the status decides
AwaitExit ==
    /\ dpc = "wait"
    /\ \E st \in ExitStatuses :
         /\ running' = running \ {CurrentCrate}
         /\ exits' = [exits EXCEPT ![CurrentCrate] = st]
         /\ IF Success(st)
            THEN /\ idx' = idx + 1
                 /\ dpc' = LoopFrom(idx + 1)
                 /\ UNCHANGED <<dresult, failure>>
            ELSE LET e == [step |-> "exit", crate |-> CurrentCrate, code |-> CodeOr1(st)]
                 IN  /\ ReturnErr(e)
                     /\ failure' = Noted(e)
    /\ UNCHANGED <<entries, crates, nread, groups, launchLog, lastEvent>>
    /\ UNCHANGED <<gvars, svars, avars, pvars, bvars>>

\* lines 119-124: sort the groups and return the suite
ReturnSuite ==
    /\ dpc = "sort"
    /\ \E s \in SortGroupsByBinary(groups) :
         dresult' = [kind |-> "ok", suite |-> [groups |-> s]]
    /\ dpc' = "done"
    /\ UNCHANGED <<entries, crates, idx, nread, groups, running, launchLog,
                   exits, failure, lastEvent>>
    /\ UNCHANGED <<gvars, svars, avars, pvars, bvars>>

DiscoveryNext ==
    \/ GetRuntimeBenchmarkGroups
    \/ StartCargoBuild
    \/ \E path \in BinaryPaths : ReadBinArtifact(path)
    \/ \E ev \in OtherEvents : ReadOtherEvent(ev)
    \/ ReadBrokenEvent
    \/ EndOfStream
    \/ AwaitExit
    \/ ReturnSuite

\* The two programs do not share state: each specification runs one of them.
GraphIdle == GraphInit

DiscoveryIdle ==
    /\ entries = [n \in EntryNames |-> "file"]
    /\ dpc = "read_dir"
    /\ crates = <<>>
    /\ idx = 1
    /\ nread = 0
    /\ groups = <<>>
    /\ running = {}
    /\ dresult = NoDResult
    /\ launchLog = <<>>
    /\ exits = [n \in EntryNames |-> NotExited]
    /\ failure = NoFailure
    /\ lastEvent = NoEvent

(***************************************************************************)
(* BenchmarkSuite and BenchmarkFilter (lines 39-72).  An Option is <<>>    *)
(* for None and <<x>> for Some(x).                                         *)
(***************************************************************************)
RECURSIVE IsPrefix(_, _)
IsPrefix(pat, name) ==
    IF pat = <<>> THEN TRUE
    ELSE IF name = <<>> THEN FALSE
    ELSE Head(pat) = Head(name) /\ IsPrefix(Tail(pat), Tail(name))

\* A name matches a pattern when it starts with it.
Matches(name, pat) == IsPrefix(pat, name)

\* benchlib::benchmark::passes_filter(name, exclude, include)
passes_filter(name, exclude, include) ==
    /\ include = <<>> \/ Matches(name, include[1])
    /\ exclude = <<>> \/ ~Matches(name, exclude[1])

RECURSIVE FlatMapNames(_)
FlatMapNames(gs) ==
    IF gs = <<>> THEN <<>> ELSE Head(gs).benchmark_names \o FlatMapNames(Tail(gs))

\* A variant that looks at the first group only.
NamesOfFirstGroup(s) ==
    IF s.groups = <<>> THEN <<>> ELSE Head(s.groups).benchmark_names

\* lines 56-60: the names of all groups, group after group
benchmark_names(s) == FlatMapNames(s.groups)

\* lines 40-42
total_benchmark_count(s) == Len(benchmark_names(s))

\* lines 44-54
filtered_benchmark_count(s, f) ==
    LET Passes(name) == passes_filter(name, f.exclude, f.include)
    IN  Len(SelectSeq(benchmark_names(s), Passes))

\* lines 69-71
BenchmarkFilterNew(exclude, include) == [exclude |-> exclude, include |-> include]

NameLists == {ListOutput(path) : path \in BinaryPaths} \cup {<<>>}
BenchmarkGroups == [binary : BinaryPaths, benchmark_names : NameLists]
Patterns == {<<>>, <<NameA>>, <<NameAB>>}
NotCounted == -1

SuiteIdle ==
    /\ suite = [groups |-> <<>>]
    /\ filter = BenchmarkFilterNew(<<>>, <<>>)
    /\ total = NotCounted
    /\ filtered = NotCounted

SuiteInit ==
    /\ \E n \in 0..MaxGroups : suite \in [groups : [1..n -> BenchmarkGroups]]
    /\ filter = BenchmarkFilterNew(<<>>, <<>>)
    /\ total = NotCounted
    /\ filtered = NotCounted

TotalBenchmarkCount ==
    /\ total = NotCounted
    /\ total' = total_benchmark_count(suite)
    /\ UNCHANGED <<suite, filter, filtered>>
    /\ UNCHANGED <<gvars, dvars, avars, pvars, bvars>>

FilteredBenchmarkCount(exclude, include) ==
    /\ filtered = NotCounted
    /\ filter' = BenchmarkFilterNew(exclude, include)
    /\ filtered' = filtered_benchmark_count(suite, filter')
    /\ UNCHANGED <<suite, total>>
    /\ UNCHANGED <<gvars, dvars, avars, pvars, bvars>>

SuiteNext ==
    \/ TotalBenchmarkCount
    \/ \E exclude \in Patterns, include \in Patterns :
          FilteredBenchmarkCount(exclude, include)

(***************************************************************************)
(* Floating-point values.  A value is a pair <<n, d>>: the rational n/d in *)
(* lowest terms when d > 0, and the IEEE specials when d = 0: <<1, 0>> is  *)
(* +inf, <<-1, 0>> is -inf and <<0, 0>> is NaN.  Arithmetic on f64 is      *)
(* exact on the values used here (its rounding is not modelled); the       *)
(* narrowing cast to f32 rounds to a 24-bit significand, ties to even.     *)
(* An Option is <<>> for None and <<x>> for Some(x).                       *)
(***************************************************************************)
F32SignificandBits == 24

NaN == <<0, 0>>
Zero == <<0, 1>>
Hundred == <<100, 1>>
IsNaN(x) == x = NaN
IsInf(x) == x[2] = 0 /\ x[1] # 0
IsFinite(x) == x[2] > 0

Abs(n) == IF n < 0 THEN -n ELSE n
Sign(n) == IF n > 0 THEN 1 ELSE IF n < 0 THEN -1 ELSE 0

RECURSIVE GCD(_, _)
GCD(a, b) == IF b = 0 THEN a ELSE GCD(b, a % b)

\* n/d in lowest terms with a positive denominator; n/0 is +inf, -inf or NaN
Norm(n, d) ==
    IF d = 0 THEN <<Sign(n), 0>>
    ELSE LET g == GCD(Abs(n), Abs(d))
         IN  <<(Sign(d) * n) \div g, Abs(d) \div g>>

FromInt(n) == <<n, 1>>

\* a - b
FSub(a, b) ==
    IF IsNaN(a) \/ IsNaN(b) THEN NaN
    ELSE IF IsInf(a) THEN (IF b = a THEN NaN ELSE a)
    ELSE IF IsInf(b) THEN <<-b[1], 0>>
    ELSE Norm(a[1] * b[2] - b[1] * a[2], a[2] * b[2])

\* a * b
FMul(a, b) == Norm(a[1] * b[1], a[2] * b[2])

\* a / b: x/0 is +inf or -inf, 0/0 and inf/inf are NaN
FDiv(a, b) ==
    IF IsNaN(a) \/ IsNaN(b) THEN NaN
    ELSE IF IsInf(a) THEN (IF IsInf(b) THEN NaN
                           ELSE <<a[1] * (IF b[1] < 0 THEN -1 ELSE 1), 0>>)
    ELSE IF IsInf(b) THEN Zero
    ELSE IF b[1] = 0 THEN <<Sign(a[1]), 0>>
    ELSE Norm(a[1] * b[2], a[2] * b[1])

RECURSIVE Pow2(_)
Pow2(k) == IF k = 0 THEN 1 ELSE 2 * Pow2(k - 1)

\* q + r/d scaled by 2 until q has 24 significant bits (or is exact)
RECURSIVE ScaleUp(_, _, _, _)
ScaleUp(q, r, d, k) ==
    IF r = 0 \/ q >= Pow2(F32SignificandBits - 1) THEN <<q, r, k>>
    ELSE LET bit == IF 2 * r >= d THEN 1 ELSE 0
         IN  ScaleUp(2 * q + bit, 2 * r - bit * d, d, k + 1)

\* the least s with a \div (d * 2^s) below 2^24
RECURSIVE ShiftDown(_, _, _)
ShiftDown(a, d, s) ==
    IF a \div (d * Pow2(s)) < Pow2(F32SignificandBits) THEN s
    ELSE ShiftDown(a, d, s + 1)

\* q + r/d rounded to an integer, ties to even
RoundEven(q, r, d) ==
    IF 2 * r > d THEN q + 1
    ELSE IF 2 * r = d THEN q + (q % 2)
    ELSE q

\* `x as f32`
AsF32(x) ==
    IF ~IsFinite(x) \/ x[1] = 0 THEN x
    ELSE LET a == Abs(x[1])
             d == x[2]
         IN  IF a \div d >= Pow2(F32SignificandBits)
             THEN LET s == ShiftDown(a, d, 1)
                      u == d * Pow2(s)
                  IN  Norm(Sign(x[1]) * RoundEven(a \div u, a % u, u) * Pow2(s), 1)
             ELSE LET t == ScaleUp(a \div d, a % d, d, 0)
                  IN  Norm(Sign(x[1]) * RoundEven(t[1], t[2], d), Pow2(t[3]))

(***************************************************************************)
(* to_graph_points (lines 218-241).  An input item is the value of one     *)
(* commit, absent when interpolation found nothing to hold, and the flag   *)
(* of the interpolation.  A panic of `expect` ends the collection.         *)
(***************************************************************************)
Panicked == [kind |-> "panic"]

GraphPoint(value, flag) == [value |-> value, is_interpolated |-> flag]

\* lines 233-237
PointValue(kind, point, percent_prev, percent_first) ==
    CASE kind = "Raw" -> AsF32(point)
      [] kind = "PercentRelative" -> AsF32(percent_prev)
      [] kind = "PercentFromFirst" -> AsF32(percent_first)

\* A closure that never moves `prev` on.
RECURSIVE MapPointsPrevStuck(_, _, _, _)
MapPointsPrevStuck(kind, points, first, prev) ==
    IF points = <<>> THEN <<>>
    ELSE LET point == Head(points).point[1]
             f == IF first = <<>> THEN point ELSE first[1]
             percent_first == FMul(FDiv(FSub(point, f), f), Hundred)
             previous_point == IF prev = <<>> THEN point ELSE prev[1]
             percent_prev ==
                 FMul(FDiv(FSub(point, previous_point), previous_point), Hundred)
         IN  <<GraphPoint(PointValue(kind, point, percent_prev, percent_first),
                          Head(points).interpolated)>>
             \o MapPointsPrevStuck(kind, Tail(points), <<f>>, <<previous_point>>)

\* lines 222-240: the closure of the map with its captured `first` and `prev`
RECURSIVE MapPoints(_, _, _, _)
MapPoints(kind, points, first, prev) ==
    IF points = <<>> THEN <<>>
    ELSE LET point == Head(points).point[1]
             f == IF first = <<>> THEN point ELSE first[1]
             percent_first == FMul(FDiv(FSub(point, f), f), Hundred)
             previous_point == IF prev = <<>> THEN point ELSE prev[1]
             percent_prev ==
                 FMul(FDiv(FSub(point, previous_point), previous_point), Hundred)
         IN  <<GraphPoint(PointValue(kind, point, percent_prev, percent_first),
                          Head(points).interpolated)>>
             \o MapPoints(kind, Tail(points), <<f>>, <<point>>)

Collected(graph_data) == [kind |-> "points", points |-> graph_data]

\* to_graph_points(kind, points).collect(): line 225 panics on an absent value
to_graph_points(kind, points) ==
    IF \E i \in DOMAIN points : points[i].point = <<>>
    THEN Panicked
    ELSE Collected(MapPoints(kind, points, <<>>, <<>>))

(***************************************************************************)
(* to_graph_points applied to series drawn from a bounded set.             *)
(***************************************************************************)
PointValues == {FromInt(0), FromInt(10), FromInt(15), FromInt(20), FromInt(16777217)}
OptionalValues == {<<>>} \cup {<<v>> : v \in PointValues}
InputItems == [point : OptionalValues, interpolated : BOOLEAN]
NotRun == [kind |-> "not run"]

PointsIdle ==
    /\ in_kind = "Raw"
    /\ in_points = <<>>
    /\ graph_points = NotRun

PointsInit ==
    /\ in_kind \in GraphKinds
    /\ \E n \in 0..MaxPoints : in_points \in [1..n -> InputItems]
    /\ graph_points = NotRun

ToGraphPoints ==
    /\ graph_points = NotRun
    /\ graph_points' = to_graph_points(in_kind, in_points)
    /\ UNCHANGED <<in_kind, in_points>>
    /\ UNCHANGED <<gvars, dvars, svars, avars, bvars>>

PointsNext == ToGraphPoints

(***************************************************************************)
(* handle_graph, lines 46-60: one graph::Series is built from the points   *)
(* of one series of handle_graph_impl.  Point indices count from 0.        *)
(***************************************************************************)
U16Modulus == 65536

\* `idx as u16`
AsU16(i) == i % U16Modulus

\* lines 47-57
BuildSeries(pts) ==
    [points |-> [i \in DOMAIN pts |-> pts[i].value],
     is_interpolated |->
        {AsU16(i - 1) : i \in {j \in DOMAIN pts : pts[j].is_interpolated}}]

\* The series lengths tried: short ones, and the first lengths that have a
\* point index a u16 cannot hold.
SeriesLengths == (0..MaxPoints) \cup {U16Modulus + k : k \in 0..MaxOver}

\* The indices whose point may be an interpolated one.
MarkedIndices == (0..(MaxPoints - 1)) \cup {U16Modulus - 1 + k : k \in 0..MaxOver}

NotBuilt == [points |-> <<>>, is_interpolated |-> {-1}]

SeriesIdle ==
    /\ series_points = <<>>
    /\ series = NotBuilt

SeriesInit ==
    /\ \E n \in SeriesLengths, marked \in SUBSET MarkedIndices :
          /\ \A i \in marked : i < n
          /\ series_points =
                <<>> \o [i \in 1..n |-> GraphPoint(Zero, (i - 1) \in marked)]
    /\ series = NotBuilt

InsertSeries ==
    /\ series = NotBuilt
    /\ series' = BuildSeries(series_points)
    /\ UNCHANGED series_points
    /\ UNCHANGED <<gvars, dvars, svars, avars, pvars>>

SeriesNext == InsertSeries

(***************************************************************************)
(* handle_graph_impl (lines 91-216) and its collaborators.  The store of   *)
(* one request is fixed by `ctxt`: the number of commits in the requested  *)
(* range, the configured summary scenarios, how many benchmarks were       *)
(* measured, whether the Empty scenario was measured at all, and where a   *)
(* measurement of the first benchmark is missing.                          *)
(***************************************************************************)
Profiles == <<"Check", "Debug", "Opt">>          \* line 125
Scenarios == {"Empty", "Full"}
Gaps == {"none", "leading", "inner"}

BenchmarkLabel(b) == <<"benchmark", b>>
SummaryLabel == <<"Summary", 0>>                  \* line 188

ProfileIndex(p) == CHOOSE i \in DOMAIN Profiles : Profiles[i] = p

\* The measurement the store holds for one benchmark, profile, scenario and
\* commit of the range, if any.
Measurement(b, p, s, c) ==
    IF \/ (s = "Empty" /\ ~ctxt.empty_measured)
       \/ (b = 1 /\ c = 1 /\ ctxt.gap = "leading")
       \/ (b = 1 /\ c = 2 /\ ctxt.gap = "inner")
    THEN <<>>
    ELSE <<FromInt(2 * c * b * ProfileIndex(p) * (IF s = "Empty" THEN 1 ELSE 3) + (b - 1))>>

\* The scenarios the store knows for the range.
KnownScenarios == IF ctxt.empty_measured THEN {"Empty", "Full"} ELSE {"Full"}

\* The values a selector of the query resolves to, in the store's order.
ProfilesOf(query) == IF query.profile = "All" THEN Profiles ELSE <<query.profile>>
ScenariosOf(query) ==
    SelectSeq(<<"Empty", "Full">>,
              LAMBDA s : s \in KnownScenarios /\ query.scenario \in {"All", s})

\* ctxt.statistic_series(query, commits): one SeriesResponse per resolved path
StatisticSeries(query) ==
    LET ps == ProfilesOf(query)
        ss == ScenariosOf(query)
        PathAt(i) ==
            [b |-> ((i - 1) \div (Len(ps) * Len(ss))) + 1,
             profile |-> ps[(((i - 1) \div Len(ss)) % Len(ps)) + 1],
             scenario |-> ss[((i - 1) % Len(ss)) + 1]]
    IN  [i \in 1..(ctxt.benchmarks * Len(ps) * Len(ss)) |->
            [path |-> [benchmark |-> BenchmarkLabel(PathAt(i).b),
                       profile |-> PathAt(i).profile,
                       scenario |-> PathAt(i).scenario,
                       metric |-> query.metric],
             series |-> [c \in 1..ctxt.range |->
                            Measurement(PathAt(i).b, PathAt(i).profile,
                                        PathAt(i).scenario, c)]]]

\* sr.interpolate(): an absent value is replaced by the nearest value before it
RECURSIVE InterpolateFrom(_, _)
InterpolateFrom(s, last) ==
    IF s = <<>> THEN <<>>
    ELSE IF Head(s) # <<>>
         THEN <<[point |-> Head(s), interpolated |-> FALSE]>>
              \o InterpolateFrom(Tail(s), Head(s))
         ELSE <<[point |-> last, interpolated |-> last # <<>>]>>
              \o InterpolateFrom(Tail(s), last)

Interpolate(s) == InterpolateFrom(s, <<>>)

RECURSIVE FSum(_)
FSum(vs) ==
    IF vs = <<>> THEN Zero
    ELSE LET rest == FSum(Tail(vs))
         IN  Norm(Head(vs)[1] * rest[2] + rest[1] * Head(vs)[2], Head(vs)[2] * rest[2])

\* db::average: commit by commit, the mean of the values the series have there
Average(list) ==
    IF list = <<>> THEN <<>>
    ELSE [c \in DOMAIN list[1] |->
            LET present == SelectSeq([i \in DOMAIN list |-> list[i][c]],
                                     LAMBDA it : it.point # <<>>)
                values == [i \in DOMAIN present |-> present[i].point[1]]
            IN  [point |-> IF present = <<>> THEN <<>>
                           ELSE <<FDiv(FSum(values), FromInt(Len(values)))>>,
                 interpolated |-> \E i \in DOMAIN list : list[i][c].interpolated]]

\* lines 123-134: iproduct!(scenarios, profiles, metric), the last one fastest
SummaryQueries ==
    [i \in 1..(Len(ctxt.summary_scenarios) * Len(Profiles)) |->
        [benchmark |-> "All",
         profile |-> Profiles[((i - 1) % Len(Profiles)) + 1],
         scenario |-> ctxt.summary_scenarios[((i - 1) \div Len(Profiles)) + 1],
         metric |-> body_impl.stat]]

\* lines 151-161: the query of the baseline of `query`
BaselineQuery(query) ==
    [benchmark |-> "All", profile |-> query.profile, scenario |-> "Empty",
     metric |-> query.metric]

\* A baseline taken from the last commit of the range.
LastOrZero(averaged) ==
    IF averaged = <<>> THEN [kind |-> "value", value |-> Zero]
    ELSE IF averaged[Len(averaged)].point = <<>> THEN Panicked
    ELSE [kind |-> "value", value |-> averaged[Len(averaged)].point[1]]

\* lines 172-173: .next().map_or(0.0, |((_c, d), _)| d.expect("interpolated"))
FirstOrZero(averaged) ==
    IF averaged = <<>> THEN [kind |-> "value", value |-> Zero]
    ELSE IF averaged[1].point = <<>> THEN Panicked
    ELSE [kind |-> "value", value |-> averaged[1].point[1]]

\* A map that never finds its entry.
NeverOccupied(q) == FALSE

\* line 163: Entry::Occupied
Occupied(q) == q \in DOMAIN baselines

\* line 174: v.insert(value)
Insert(map, k, v) == [x \in DOMAIN map \cup {k} |-> IF x = k THEN v ELSE map[x]]

\* line 184: every value of the averaged series divided by `against`
DivideBy(averaged, a) ==
    [i \in DOMAIN averaged |->
        [point |-> <<FDiv(averaged[i].point[1], a)>>,
         interpolated |-> averaged[i].interpolated]]

\* The interpolated series a query resolves to, in the order of the store.
InterpolatedSeries(query) ==
    LET found == StatisticSeries(query)
    IN  [i \in DOMAIN found |-> Interpolate(found[i].series)]

\* lines 204-213: the series grouped by benchmark, then by profile
ByTestCase(all) ==
    LET Of(b, p) == SelectSeq(all, LAMBDA sr : sr.path.benchmark = b /\ sr.path.profile = p)
    IN  [b \in {all[i].path.benchmark : i \in DOMAIN all} |->
            [p \in {all[i].path.profile : i \in {j \in DOMAIN all : all[j].path.benchmark = b}} |->
                [i \in DOMAIN Of(b, p) |-> <<Of(b, p)[i].path.scenario, Of(b, p)[i].series>>]]]

ScenarioLists == UNION {[1..n -> Scenarios] : n \in 0..MaxScenarios}

NoAgainst == NaN
EmptyMap == <<>>

ImplIdle ==
    /\ ctxt = [range |-> 0, summary_scenarios |-> <<>>, benchmarks |-> 1,
               empty_measured |-> TRUE, gap |-> "none"]
    /\ body_impl = [stat |-> "instructions:u", kind |-> "Raw"]
    /\ ipc = "series"
    /\ all_series = <<>>
    /\ baselines = EmptyMap
    /\ qi = 1
    /\ against = NoAgainst
    /\ impl_result = NoResult
    /\ baseline_log = <<>>
    /\ summary_log = <<>>

ImplInit ==
    /\ ctxt \in [range : 0..MaxRange, summary_scenarios : ScenarioLists,
                 benchmarks : 1..MaxBenchmarks, empty_measured : BOOLEAN, gap : Gaps]
    /\ body_impl \in [stat : {"instructions:u"}, kind : GraphKinds]
    /\ ipc = "series"
    /\ all_series = <<>>
    /\ baselines = EmptyMap
    /\ qi = 1
    /\ against = NoAgainst
    /\ impl_result = NoResult
    /\ baseline_log = <<>>
    /\ summary_log = <<>>

\* The loop of line 136 takes the next summary query, or ends.
NextQuery(i) == IF i <= Len(SummaryQueries) THEN "baseline" ELSE "group"

\* The `?` of lines 109, 167 and 179
ImplErr ==
    /\ impl_result' = [kind |-> "err"]
    /\ ipc' = "done"

\* A panic of `expect` unwinds the request.
ImplPanic ==
    /\ impl_result' = Panicked
    /\ ipc' = "done"

\* lines 95-117: the series of every benchmark, profile and scenario
FetchAllSeries ==
    /\ ipc = "series"
    /\ \E ok \in BOOLEAN :
         IF ok
         THEN LET found == StatisticSeries([benchmark |-> "All", profile |-> "All",
                                           scenario |-> "All", metric |-> body_impl.stat])
                  mapped == [i \in DOMAIN found |->
                                [path |-> found[i].path,
                                 series |-> to_graph_points(body_impl.kind,
                                                            Interpolate(found[i].series))]]
              IN  IF \E i \in DOMAIN mapped : mapped[i].series = Panicked
                  THEN ImplPanic /\ UNCHANGED all_series
                  ELSE /\ all_series' =
                            [i \in DOMAIN mapped |->
                                [path |-> mapped[i].path, series |-> mapped[i].series.points]]
                       /\ ipc' = NextQuery(1)
                       /\ UNCHANGED impl_result
         ELSE ImplErr /\ UNCHANGED all_series
    /\ UNCHANGED <<ctxt, body_impl, baselines, qi, against, baseline_log, summary_log>>
    /\ UNCHANGED <<gvars, dvars, svars, pvars, bvars>>

\* lines 137-176: the baseline of the query's profile, from the map or from
\* the store
Baseline ==
    /\ ipc = "baseline"
    /\ LET q == BaselineQuery(SummaryQueries[qi])
       IN  IF Occupied(q)
           THEN /\ against' = baselines[q]
                /\ ipc' = "averaged"
                /\ UNCHANGED <<baselines, impl_result, baseline_log>>
           ELSE \E ok \in BOOLEAN :
                  IF ok
                  THEN LET averaged == Average(InterpolatedSeries(q))
                           value == FirstOrZero(averaged)
                       IN  /\ baseline_log' =
                                Append(baseline_log,
                                       [key |-> q, answered |-> TRUE, averaged |-> averaged])
                           /\ IF value = Panicked
                              THEN ImplPanic /\ UNCHANGED <<baselines, against>>
                              ELSE /\ baselines' = Insert(baselines, q, value.value)
                                   /\ against' = value.value
                                   /\ ipc' = "averaged"
                                   /\ UNCHANGED impl_result
                  ELSE /\ ImplErr
                       /\ baseline_log' =
                            Append(baseline_log,
                                   [key |-> q, answered |-> FALSE, averaged |-> <<>>])
                       /\ UNCHANGED <<baselines, against>>
    /\ UNCHANGED <<ctxt, body_impl, all_series, qi, summary_log>>
    /\ UNCHANGED <<gvars, dvars, svars, pvars, bvars>>

\* lines 177-202: the averaged series of the query over `against`, through
\* to_graph_points, pushed as a Summary series
Averaged ==
    /\ ipc = "averaged"
    /\ \E ok \in BOOLEAN :
         IF ok
         THEN LET query == SummaryQueries[qi]
                  averaged == Average(InterpolatedSeries(query))
              IN  IF \E i \in DOMAIN averaged : averaged[i].point = <<>>
                  THEN ImplPanic /\ UNCHANGED <<all_series, qi, summary_log>>
                  ELSE LET ratios == DivideBy(averaged, against)
                           graph_data == to_graph_points(body_impl.kind, ratios)
                       IN  /\ all_series' =
                                Append(all_series,
                                       [path |-> [benchmark |-> SummaryLabel,
                                                  profile |-> query.profile,
                                                  scenario |-> query.scenario,
                                                  metric |-> query.metric],
                                        series |-> graph_data.points])
                           /\ summary_log' =
                                Append(summary_log,
                                       [query |-> query, against |-> against,
                                        averaged |-> averaged, ratios |-> ratios])
                           /\ qi' = qi + 1
                           /\ ipc' = NextQuery(qi + 1)
                           /\ UNCHANGED impl_result
         ELSE ImplErr /\ UNCHANGED <<all_series, qi, summary_log>>
    /\ UNCHANGED <<ctxt, body_impl, baselines, against, baseline_log>>
    /\ UNCHANGED <<gvars, dvars, svars, pvars, bvars>>

\* lines 204-215: Ok(by_test_case)
GroupByTestCase ==
    /\ ipc = "group"
    /\ impl_result' = [kind |-> "ok", by_test_case |-> ByTestCase(all_series)]
    /\ ipc' = "done"
    /\ UNCHANGED <<ctxt, body_impl, all_series, baselines, qi, against,
                   baseline_log, summary_log>>
    /\ UNCHANGED <<gvars, dvars, svars, pvars, bvars>>

ImplNext ==
    \/ FetchAllSeries
    \/ Baseline
    \/ Averaged
    \/ GroupByTestCase

Init == GraphInit /\ DiscoveryIdle /\ SuiteIdle /\ ImplIdle /\ PointsIdle /\ SeriesIdle
Next == GraphNext
Spec == Init /\ [][Next]_vars

TNext == TaggedNext
TagSpec == Init /\ [][TNext]_vars

DInit == DiscoveryInit /\ GraphIdle /\ SuiteIdle /\ ImplIdle /\ PointsIdle /\ SeriesIdle
DNext == DiscoveryNext
DiscoverySpec == DInit /\ [][DNext]_vars

SInit == SuiteInit /\ GraphIdle /\ DiscoveryIdle /\ ImplIdle /\ PointsIdle /\ SeriesIdle
SNext == SuiteNext
SuiteSpec == SInit /\ [][SNext]_vars

IInit == ImplInit /\ GraphIdle /\ DiscoveryIdle /\ SuiteIdle /\ PointsIdle /\ SeriesIdle
INext == ImplNext
ImplSpec == IInit /\ [][INext]_vars

PInit == PointsInit /\ GraphIdle /\ DiscoveryIdle /\ SuiteIdle /\ ImplIdle /\ SeriesIdle
PNext == PointsNext
PointsSpec == PInit /\ [][PNext]_vars

BInit == SeriesInit /\ GraphIdle /\ DiscoveryIdle /\ SuiteIdle /\ ImplIdle /\ PointsIdle
BNext == SeriesNext
SeriesSpec == BInit /\ [][BNext]_vars

(***************************************************************************)
(* Properties of the landing-page cache (checked under Spec).              *)
(***************************************************************************)
Canonical(r) == pc[r] # "idle" /\ body[r] = DefaultQuery
ReturnedOk(r) == pc[r] = "done" /\ result[r].kind = "ok"
Stored == {storeLog[i].resp : i \in DOMAIN storeLog}

\* C1: a canonical request issued after a canonical request has returned Ok
\* is served from the slot: it never reaches the data-range lookup, the store
\* query or the aggregation (it is not counted as a recomputation), and what
\* it returns is a response that was stored into the slot.
C1_CacheHitNoRecompute ==
    \A r \in Requests :
        (Canonical(r) /\ afterSuccess[r]) =>
            /\ pc[r] \in {"load", "done"}
            /\ ~computed[r]
            /\ pc[r] = "done" => (result[r].kind = "ok" /\ result[r].resp \in Stored)

C1_Witness ==
    \E r \in Requests : Canonical(r) /\ afterSuccess[r] /\ ReturnedOk(r)

ConcurrentCanonicalPairs ==
    {p \in Requests \X Requests :
        /\ p[1] \in concurrent[p[2]]
        /\ Canonical(p[1]) /\ Canonical(p[2])
        /\ ReturnedOk(p[1]) /\ ReturnedOk(p[2])}

\* C2 as stated: two concurrent canonical requests that have both returned
\* hold identical responses.
C2_ConcurrentIdentical ==
    \A p \in ConcurrentCanonicalPairs : result[p[1]].resp = result[p[2]].resp

\* Every canonical computation so far read the store as it is now.
StoreQuiescent ==
    \A r \in Requests :
        (Canonical(r) /\ computed[r]) =>
            /\ Len(commits[r]) = store
            /\ resp[r] # NoResp => Len(resp[r].benchmarks.range) = store

\* C2 amended: two concurrent canonical requests that have both returned
\* hold identical responses provided the store did not advance between the
\* reads of the canonical computations made so far.
C2_ConcurrentIdenticalQuiescent ==
    StoreQuiescent =>
        \A p \in ConcurrentCanonicalPairs : result[p[1]].resp = result[p[2]].resp

\* Two concurrent canonical requests both missed, both computed and both
\* returned, with the store unchanged.
C2_Witness ==
    /\ StoreQuiescent
    /\ \E p \in ConcurrentCanonicalPairs : computed[p[1]] /\ computed[p[2]]

\* C3: no step of a non-canonical request loads the slot or changes it,
\* whether the request ends in Ok or in an error.
C3_NonCanonicalFrame ==
    [][\A r \in Requests :
          (pc'[r] # pc[r] /\ body'[r] # DefaultQuery) =>
              (landing_page' = landing_page /\ loaded'[r] = FALSE)]_vars

\* A non-canonical request has returned Ok, and another one an error, while
\* the slot held a response (which none of them returned).
C3_Witness ==
    /\ landing_page # <<>>
    /\ \E r \in Requests :
          /\ pc[r] = "done" /\ body[r] # DefaultQuery
          /\ result[r].kind = "ok" /\ result[r].resp # landing_page[1]
          /\ ~loaded[r]

\* C4: the slot is empty until the first store and afterwards holds exactly
\* the whole response of the request whose store came last; that response
\* is one a canonical request built, and every request that stored had
\* missed and recomputed for itself.
C4_LastWriterWins ==
    /\ storeLog = <<>> => landing_page = <<>>
    /\ storeLog # <<>> => landing_page = <<storeLog[Len(storeLog)].resp>>
    /\ landing_page # <<>> => landing_page[1] \in built
    /\ \A i \in DOMAIN storeLog : storeLog[i].recomputed

\* Two requests missed and stored different responses, one after the other.
C4_Witness ==
    /\ Len(storeLog) >= 2
    /\ storeLog[1].resp # storeLog[2].resp
    /\ landing_page = <<storeLog[2].resp>>

(***************************************************************************)
(* Properties of discover_benchmarks (checked under DiscoverySpec).        *)
(***************************************************************************)
Failed == failure # NoFailure
Launched == {launchLog[i] : i \in DOMAIN launchLog}
CrateNames == {n \in EntryNames : entries[n] = "crate"}

\* The crate names in ascending order, by rank.
NamesAscending ==
    [i \in 1..Cardinality(CrateNames) |->
        CHOOSE n \in CrateNames : Cardinality({m \in CrateNames : m < n}) = i - 1]

\* C5: once any step has failed, discover_benchmarks has returned that
\* error and no suite, and no crate after the failing one was ever built;
\* a returned suite means that nothing failed.
C5_NoPartialSuccess ==
    /\ Failed =>
          /\ dpc = "done"
          /\ dresult = [kind |-> "err", error |-> failure[1]]
          /\ "crate" \in DOMAIN failure[1] =>
                \A c \in Launched : c <= failure[1].crate
    /\ dresult.kind = "ok" => ~Failed

\* The second crate failed after the first one had produced a group, and a
\* third crate was never built.
C5_Witness ==
    /\ Failed /\ "crate" \in DOMAIN failure[1]
    /\ Len(crates) = 3 /\ failure[1].crate = crates[2].name
    /\ Len(groups) >= 1
    /\ exits[crates[1].name] = [code |-> 0]
    /\ crates[3].name \notin Launched
    /\ dresult.kind = "err"

\* C6: at most one build process is alive at any time; while a crate is
\* being built it is the only one, and a build is launched only when every
\* build launched before it has been waited for.
C6_OneBuildAtATime ==
    /\ Cardinality(running) <= 1
    /\ dpc \in {"events", "wait"} => running = {CurrentCrate}
    /\ dpc \in {"launch", "sort"} => running = {}
    /\ \A i \in DOMAIN launchLog :
          i < Len(launchLog) => exits[launchLog[i]] # NotExited

\* The second build is running, the first one has been waited for.
C6_Witness ==
    /\ Len(launchLog) = 2
    /\ dpc = "events"
    /\ running = {launchLog[2]}

\* C7: a build that ended unsuccessfully makes discover_benchmarks return
\* an error for that crate which carries the exit code (1 when the process
\* has none), however many groups were pushed before; a suite is returned
\* only when every build exited with status 0.
C7_NonZeroExitFatal ==
    /\ \A c \in EntryNames :
          (exits[c] # NotExited /\ exits[c] # [code |-> 0]) =>
              /\ dpc = "done"
              /\ dresult.kind = "err"
              /\ dresult.error.step = "exit"
              /\ dresult.error.crate = c
              /\ dresult.error.code =
                    (IF "code" \in DOMAIN exits[c] THEN exits[c].code ELSE 1)
    /\ dresult.kind = "ok" => \A c \in Launched : exits[c] = [code |-> 0]

\* A build exited with code 101 after its stream had reported two binaries
\* whose groups were pushed.
C7_Witness ==
    /\ Len(launchLog) = 1
    /\ Len(groups) = 2
    /\ exits[launchLog[1]] = [code |-> 101]
    /\ dresult.kind = "err" /\ dresult.error.code = 101

\* C8: whatever order the directory is enumerated in, the builds launched
\* so far are the first crates in ascending name order, only directories
\* with a manifest are among them, and a run that returns a suite has
\* launched all of them.
C8_NameSortedLaunches ==
    /\ Len(launchLog) <= Len(NamesAscending)
    /\ \A i \in DOMAIN launchLog : launchLog[i] = NamesAscending[i]
    /\ dresult.kind = "ok" => launchLog = NamesAscending

\* All three entries are crates and all were built.
C8_Witness ==
    /\ dresult.kind = "ok"
    /\ Len(launchLog) = 3

SameGroups(s, t) ==
    /\ Len(s) = Len(t)
    /\ \E f \in IndexOrders(Len(s)) : \A i \in 1..Len(s) : s[i] = t[f[i]]

\* C9: the groups of a returned suite are the groups that were pushed, in
\* non-decreasing order of binary path, and each group's names are in the
\* order its binary listed them.
C9_GroupsSortedByBinary ==
    dresult.kind = "ok" =>
        LET gs == dresult.suite.groups
        IN  /\ SameGroups(gs, groups)
            /\ \A i, j \in DOMAIN gs : i < j => ~PathLess(gs[j].binary, gs[i].binary)
            /\ \A i \in DOMAIN gs : gs[i].benchmark_names = ListOutput(gs[i].binary)

\* A suite was returned whose binaries had been reported in descending
\* order of path.
C9_Witness ==
    /\ dresult.kind = "ok"
    /\ Len(groups) = 3
    /\ PathLess(groups[2].binary, groups[1].binary)
    /\ PathLess(groups[3].binary, groups[2].binary)

(***************************************************************************)
(* Properties of BenchmarkSuite (checked under SuiteSpec).                 *)
(***************************************************************************)
RECURSIVE SumOfLengths(_)
SumOfLengths(gs) ==
    IF gs = <<>> THEN 0 ELSE Len(Head(gs).benchmark_names) + SumOfLengths(Tail(gs))

\* The places (group, position) of the names that pass the filter.
PassingPlaces ==
    {p \in (DOMAIN suite.groups) \X (1..SumOfLengths(suite.groups)) :
        /\ p[2] \in DOMAIN suite.groups[p[1]].benchmark_names
        /\ LET name == suite.groups[p[1]].benchmark_names[p[2]]
           IN  /\ filter.include = <<>> \/ IsPrefix(filter.include[1], name)
               /\ filter.exclude = <<>> \/ ~IsPrefix(filter.exclude[1], name)}

\* C10: total_benchmark_count is the sum of the groups' name counts;
\* filtered_benchmark_count is the number of names that pass the filter,
\* never more than the total, and equal to the total when the filter has
\* neither include nor exclude.
C10_Counts ==
    /\ total # NotCounted => total = SumOfLengths(suite.groups)
    /\ filtered # NotCounted =>
          /\ filtered = Cardinality(PassingPlaces)
          /\ filtered <= SumOfLengths(suite.groups)
          /\ (filter.include = <<>> /\ filter.exclude = <<>>) =>
                filtered = SumOfLengths(suite.groups)

\* Two groups with 3 and 5 names: both counts are 8 without a filter.
C10_Witness ==
    /\ Len(suite.groups) = 2
    /\ Len(suite.groups[1].benchmark_names) = 3
    /\ Len(suite.groups[2].benchmark_names) = 5
    /\ total = 8
    /\ filter = [exclude |-> <<>>, include |-> <<>>]
    /\ filtered = 8

(***************************************************************************)
(* Properties of handle_graph_impl (checked under ImplSpec).               *)
(***************************************************************************)
\* The mean of the Empty-scenario measurements of a profile at the first
\* commit of the range, over the benchmarks measured.
MeanAtFirstCommit(p) ==
    FDiv(FSum([b \in 1..ctxt.benchmarks |-> Measurement(b, p, "Empty", 1)[1]]),
         FromInt(ctxt.benchmarks))

\* The mean of the averaged Empty-scenario series of a profile over the
\* whole commit range.
MeanOverRange(p) ==
    LET avg == Average(InterpolatedSeries(
                   [benchmark |-> "All", profile |-> p, scenario |-> "Empty",
                    metric |-> body_impl.stat]))
    IN  FDiv(FSum([c \in DOMAIN avg |-> avg[c].point[1]]), FromInt(Len(avg)))

\* The Empty scenario of a profile has a value at every commit of a
\* non-empty range.
HasBaselineSeries == ctxt.empty_measured /\ ctxt.range >= 1

Divided(e) ==
    /\ Len(e.ratios) = Len(e.averaged)
    /\ \A i \in DOMAIN e.ratios :
          e.ratios[i].point = <<FDiv(e.averaged[i].point[1], e.against)>>

BaselineQueriesOf(p) ==
    {k \in DOMAIN baseline_log : baseline_log[k].key.profile = p}

\* C12: within one request the store is asked for the baseline series of a
\* profile at most once, whatever the number of summary scenarios; the map
\* is keyed by (profile, Empty, metric), and every summary series of a
\* profile is divided by the value the map holds for it.
C12_BaselineOnce ==
    /\ \A i \in DOMAIN Profiles : Cardinality(BaselineQueriesOf(Profiles[i])) <= 1
    /\ \A q \in DOMAIN baselines :
          /\ q.scenario = "Empty" /\ q.metric = body_impl.stat
          /\ \E i \in DOMAIN Profiles : q.profile = Profiles[i]
          /\ \E k \in DOMAIN baseline_log :
                baseline_log[k].key = q /\ baseline_log[k].answered
    /\ \A k \in DOMAIN summary_log :
          LET q == [benchmark |-> "All", profile |-> summary_log[k].query.profile,
                    scenario |-> "Empty", metric |-> summary_log[k].query.metric]
          IN  q \in DOMAIN baselines /\ summary_log[k].against = baselines[q]

\* Two summary scenarios were computed for the three profiles with three
\* baseline queries.
C12_Witness ==
    /\ Len(summary_log) = 2 * Len(Profiles)
    /\ summary_log[1].query.scenario # summary_log[Len(summary_log)].query.scenario
    /\ Len(baseline_log) = Len(Profiles)
    /\ impl_result.kind = "ok"

\* C13 as stated: when the averaged baseline series of a profile is empty,
\* the computation fails there.
C13_MissingBaselineFatal ==
    \A k \in DOMAIN baseline_log :
        (baseline_log[k].answered /\ baseline_log[k].averaged = <<>>) =>
            /\ ipc = "done"
            /\ impl_result.kind \in {"err", "panic"}
            /\ ~\E j \in DOMAIN summary_log :
                  summary_log[j].query.profile = baseline_log[k].key.profile

(***************************************************************************)
(* Properties of to_graph_points (checked under PointsSpec).               *)
(***************************************************************************)
AllPresent == \A i \in DOMAIN in_points : in_points[i].point # <<>>
InputValue(i) == in_points[i].point[1]

\* (v - w) / w * 100
PercentOf(v, w) == FMul(FDiv(FSub(v, w), w), Hundred)

OnePointPerInput ==
    /\ graph_points.kind = "points"
    /\ Len(graph_points.points) = Len(in_points)
    /\ \A i \in DOMAIN in_points :
          graph_points.points[i].is_interpolated = in_points[i].interpolated

ValuesOf(s) == [i \in DOMAIN s |-> s[i].value]

\* C14 as stated: one point per input point, in order, with the input's
\* flag, whose value is v_i for Raw, the percent change from the previous
\* value for PercentRelative and from the first value for PercentFromFirst,
\* the first point of both being 0.
C14_PointFormulas ==
    (graph_points # NotRun /\ AllPresent) =>
        /\ OnePointPerInput
        /\ \A i \in DOMAIN in_points :
              graph_points.points[i].value =
                 CASE in_kind = "Raw" -> InputValue(i)
                   [] in_kind = "PercentRelative" ->
                        IF i = 1 THEN Zero ELSE PercentOf(InputValue(i), InputValue(i - 1))
                   [] in_kind = "PercentFromFirst" ->
                        IF i = 1 THEN Zero ELSE PercentOf(InputValue(i), InputValue(1))

\* C14 amended: as above with every value rounded to single precision, and
\* with a first point that is 0 for a non-zero first value and NaN for a
\* first value of 0; [10, 20, 15] gives [0, 100, -25] and [0, 100, 50].
C14_PointFormulasRounded ==
    (graph_points # NotRun /\ AllPresent) =>
        /\ OnePointPerInput
        /\ \A i \in DOMAIN in_points :
              graph_points.points[i].value =
                 CASE in_kind = "Raw" -> AsF32(InputValue(i))
                   [] in_kind = "PercentRelative" ->
                        IF i = 1 THEN (IF InputValue(1) = Zero THEN NaN ELSE Zero)
                        ELSE AsF32(PercentOf(InputValue(i), InputValue(i - 1)))
                   [] in_kind = "PercentFromFirst" ->
                        IF i = 1 THEN (IF InputValue(1) = Zero THEN NaN ELSE Zero)
                        ELSE AsF32(PercentOf(InputValue(i), InputValue(1)))
        /\ [i \in DOMAIN in_points |-> in_points[i].point] =
              <<<<FromInt(10)>>, <<FromInt(20)>>, <<FromInt(15)>>>> =>
              ValuesOf(graph_points.points) =
                 CASE in_kind = "Raw" -> <<FromInt(10), FromInt(20), FromInt(15)>>
                   [] in_kind = "PercentRelative" -> <<Zero, FromInt(100), FromInt(-25)>>
                   [] in_kind = "PercentFromFirst" -> <<Zero, FromInt(100), FromInt(50)>>

\* PercentRelative of [10, 20, 15] has been computed, the second input being
\* an interpolated one.
C14_Witness ==
    /\ in_kind = "PercentRelative"
    /\ in_points = <<[point |-> <<FromInt(10)>>, interpolated |-> FALSE],
                     [point |-> <<FromInt(20)>>, interpolated |-> TRUE],
                     [point |-> <<FromInt(15)>>, interpolated |-> FALSE]>>
    /\ graph_points # NotRun
    /\ ValuesOf(graph_points.points) = <<Zero, FromInt(100), FromInt(-25)>>

(***************************************************************************)
(* Properties of the series of a response (checked under SeriesSpec).      *)
(***************************************************************************)
\* C17 as stated: the is_interpolated set of a series holds index i exactly
\* when the i-th point of the series is an interpolated one, whatever the
\* length of the series.
C17_InterpolatedIndices ==
    series # NotBuilt =>
        /\ Len(series.points) = Len(series_points)
        /\ \A i \in 0..(Len(series_points) - 1) :
              i \in series.is_interpolated <=> series_points[i + 1].is_interpolated

(***************************************************************************)
(* Properties of discover_benchmark_groups (checked under DiscoverySpec).  *)
(***************************************************************************)
\* The binaries that were run with `list`: those whose group was pushed,
\* and the one whose listing failed.
Listed ==
    {groups[i].binary : i \in DOMAIN groups}
        \cup (IF Failed /\ failure[1].step = "list" THEN {failure[1].binary} ELSE {})

ReadAnEvent == dpc = "events" /\ nread' = nread + 1

\* C15: the exit of a build is awaited only after its stream has ended, and
\* from then on no event of it is handled; a binary is run with `list` in
\* the step that reads its artifact event, while the build has not been
\* waited for; an error raised while the stream is consumed ends the run
\* with the build never waited for.
C15_StreamThenWait ==
    /\ [][/\ (dpc' = "wait" /\ dpc # "wait") =>
                (dpc = "events" /\ nread' = nread /\ groups' = groups /\ exits' = exits)
          /\ exits' # exits => dpc = "wait"
          /\ dpc = "wait" => (nread' = nread /\ groups' = groups /\ Listed' = Listed)
          /\ (Len(groups') # Len(groups) \/ Listed' # Listed) =>
                /\ ReadAnEvent
                /\ lastEvent'.kind = "artifact_bin"
                /\ Listed' = Listed \cup {lastEvent'.path}
                /\ exits'[CurrentCrate] = NotExited
                /\ CurrentCrate \in running']_vars
    /\ [](\A c \in EntryNames :
            (Failed /\ failure[1].step \in {"stream", "list"} /\ failure[1].crate = c) =>
                (dpc = "done" /\ exits[c] = NotExited /\ c \in running))

\* The second build's stream broke after a binary of it had been listed;
\* the first build had been waited for, the second never is.
C15_Witness ==
    /\ Failed /\ failure[1].step = "stream"
    /\ Len(launchLog) = 2
    /\ exits[launchLog[1]] = [code |-> 0]
    /\ exits[launchLog[2]] = NotExited
    /\ launchLog[2] \in running
    /\ nread = 2 /\ Len(groups) >= 1

\* C16: reading an artifact event with an executable of kind "bin" appends
\* exactly one group, that of its path, to the groups (or fails in the
\* listing); reading any other readable event changes nothing: no group,
\* no binary run, no error, and the stream goes on.
C16_OneGroupPerBinArtifact ==
    [][ReadAnEvent =>
          /\ lastEvent'.kind = "artifact_bin" =>
                \/ /\ groups' = Append(groups,
                                       [binary |-> lastEvent'.path,
                                        benchmark_names |-> ListOutput(lastEvent'.path)])
                   /\ failure' = failure /\ dpc' = dpc
                \/ /\ groups' = groups
                   /\ failure' # failure /\ failure'[1].step = "list"
          /\ lastEvent'.kind \in OtherEvents =>
                /\ groups' = groups /\ Listed' = Listed
                /\ failure' = failure /\ dresult' = dresult
                /\ dpc' = "events" /\ running' = running]_vars

\* An artifact that is no binary was read after a binary of the same
\* build, whose group stays the only one.
C16_Witness ==
    /\ lastEvent.kind = "artifact_not_bin"
    /\ nread = 2
    /\ Len(launchLog) = 1
    /\ Len(groups) = 1
    /\ ~Failed


(***************************************************************************)
(* A tagged artifact in the data range (checked under TagSpec).            *)
(***************************************************************************)
\* C18: a request whose data range contains a Tag never gets past the
\* building of the commits list: it does not reach the store of line 80,
\* the slot is left as it was, it ends without a response (in the panic of
\* line 73, or in the error of handle_graph_impl when that came first), and
\* no response ever lists a Tag.
C18_TagIsFatal ==
    /\ [][\A r \in Requests :
            (pc'[r] # pc[r] /\ HasTag(commits'[r])) =>
                /\ pc'[r] # "store"
                /\ landing_page' = landing_page
                /\ storeLog' = storeLog
                /\ resp'[r] = NoResp
                /\ pc'[r] = "done" => result'[r].kind \in {"panic", "err"}
                /\ (pc[r] = "impl" /\ result'[r].kind # "err")
                       => result'[r].kind = "panic"]_vars
    /\ [](\A r \in Requests :
            result[r].kind = "panic" => (pc[r] = "done" /\ HasTag(commits[r])))

\* C18 as stated: every finished request whose data range contains a Tag has
\* failed fatally.
C18_TagAlwaysPanics ==
    \A r \in Requests :
        (pc[r] = "done" /\ HasTag(commits[r])) => result[r].kind = "panic"

\* A canonical request over a tagged range has panicked with the slot still
\* empty, while a request bounded to the commits before the tag got its
\* response.
C18_Witness ==
    \E r, q \in Requests :
        /\ body[r] = DefaultQuery /\ result[r].kind = "panic"
        /\ landing_page = <<>>
        /\ tagged /\ ReturnedOk(q) /\ ~HasTag(commits[q])

(***************************************************************************)
(* Failure and lifetime of the slot (checked under Spec).                  *)
(***************************************************************************)
\* C19: the step in which a canonical request ends in an error leaves the
\* slot and the record of stores as they were, and a canonical request that
\* reads the slot empty goes on to compute.
C19_FailureLeavesSlot ==
    [][\A r \in Requests :
         /\ (body'[r] = DefaultQuery /\ result'[r].kind = "err"
                 /\ result[r].kind # "err")
               => (landing_page' = landing_page /\ storeLog' = storeLog
                      /\ pc'[r] = "done")
         /\ (body[r] = DefaultQuery /\ pc[r] = "load" /\ pc'[r] # "load"
                 /\ landing_page = <<>>)
               => (pc'[r] = "range" /\ result'[r] = NoResult)]_vars

\* A canonical request failed, the slot stayed empty, and a canonical request
\* issued after it recomputed and stored.
C19_Witness ==
    \E r, q \in Requests :
        /\ body[r] = DefaultQuery /\ pc[r] = "done" /\ result[r].kind = "err"
        /\ body[q] = DefaultQuery /\ concurrent[q] = {} /\ ~afterSuccess[q]
        /\ computed[q] /\ ReturnedOk(q)
        /\ Len(storeLog) = 1 /\ landing_page = <<result[q].resp>>

\* the canonical requests that were issued before any canonical request had
\* returned a response
EarlyCanonical == {r \in Requests : Canonical(r) /\ ~afterSuccess[r]}

\* C20: the slot is empty at first and never becomes empty again; every
\* store is made by a canonical request that read the slot empty and was
\* issued before the first store; once those requests are done the slot
\* keeps its value, and a canonical request issued when only later requests
\* were in flight returns what the slot holds.
C20_SlotLifetime ==
    /\ landing_page = <<>>
    /\ [][landing_page # <<>> => landing_page' # <<>>]_vars
    /\ [][(storeLog' # storeLog \/ landing_page' # landing_page) =>
            \E r \in EarlyCanonical :
                /\ pc[r] = "store" /\ pc'[r] = "done"
                /\ loaded[r] /\ computed[r]
                /\ landing_page' = <<resp[r]>>]_vars
    /\ [][(landing_page # <<>> /\ \A r \in EarlyCanonical : pc[r] = "done")
            => landing_page' = landing_page]_vars
    /\ [](\A r \in Requests :
            (Canonical(r) /\ afterSuccess[r] /\ pc[r] = "done"
                 /\ concurrent[r] \cap EarlyCanonical = {})
               => /\ landing_page # <<>>
                  /\ result[r] = [kind |-> "ok", resp |-> landing_page[1]])

\* The slot was filled while the store held fewer commits than it does now,
\* and a canonical request issued afterwards got the slot's value.
C20_Witness ==
    \E r \in Requests :
        /\ Canonical(r) /\ afterSuccess[r] /\ concurrent[r] = {}
        /\ ReturnedOk(r) /\ ~computed[r]
        /\ landing_page # <<>>
        /\ result[r].resp = landing_page[1]
        /\ Len(landing_page[1].commits) < store

====
